---- MODULE Spec2Model ----
(***************************************************************************)
(* FindDomains: four scripts (FindNames.py, aidomains.py, checkcomorai.py, *)
(* checkdomains_curl.py) that probe RDAP registries for candidate domains  *)
(* over a ThreadPoolExecutor and collect the candidates judged available.  *)
(*                                                                         *)
(* Strings the code takes apart (domains, curl's header output) are        *)
(* sequences of one-character strings, so that split, lower, the substring *)
(* test and list.sort are computed and not assumed.                        *)
(*                                                                         *)
(* ProbeSpec drives one call of check_domain on every input; Spec and      *)
(* FairSpec drive the pool of a whole run.                                 *)
(***************************************************************************)
EXTENDS Integers, Sequences, FiniteSets, TLC

VARIABLES
    script,             \* which of the four scripts is running
    probe,              \* ProbeSpec: the one call of check_domain under way
    max_workers,        \* ThreadPoolExecutor(max_workers=...)
    domains_to_check,   \* the candidate list (words_to_check in FindNames.py)
    future,             \* the futures of future_to_domain, by position
    hung,               \* tasks whose network call never returns
    yielded,            \* futures as_completed has handed to the loop
    cur,                \* the future the loop body is working on (0: none)
    lock,               \* threading.Lock(): "free" or "main"
    available_domains,  \* the result list
    output,             \* what the summary printed and the file holds
    pc                  \* where the main thread is

vars == <<script, probe, max_workers, domains_to_check, future, hung,
          yielded, cur, lock, available_domains, output, pc>>

poolVars == <<max_workers, domains_to_check, future, hung, yielded, cur,
              lock, available_domains, output, pc>>

Scripts == {"FindNames", "aidomains", "checkcomorai", "checkdomains_curl"}

\* The scripts that call requests.get; the other two spawn curl -s -I.
RequestsScripts == {"aidomains", "checkcomorai"}

(***************************************************************************)
(* Strings as sequences of characters.                                     *)
(***************************************************************************)

\* The characters of the model's domains, in code-point order.
Alphabet == <<".", "A", "B", "C", "I", "M", "O",
              "a", "b", "c", "d", "e", "i", "m", "o", "v", "z">>

Ord(c) == CHOOSE i \in 1..Len(Alphabet) : Alphabet[i] = c

\* str.lower() on one character.
LowerChar(c) ==
    CASE c = "A" -> "a" [] c = "B" -> "b" [] c = "C" -> "c"
      [] c = "I" -> "i" [] c = "M" -> "m" [] c = "O" -> "o"
      [] OTHER -> c

Lower(s) == [i \in 1..Len(s) |-> LowerChar(s[i])]

\* Position of the last sep in s, 0 when there is none.
LastIndexOf(s, sep) ==
    IF \E i \in 1..Len(s) : s[i] = sep
    THEN CHOOSE i \in 1..Len(s) :
            /\ s[i] = sep
            /\ \A j \in (i+1)..Len(s) : s[j] # sep
    ELSE 0

\* Position of the first sep in s, Len(s)+1 when there is none.
FirstIndexOf(s, sep) ==
    IF \E i \in 1..Len(s) : s[i] = sep
    THEN CHOOSE i \in 1..Len(s) :
            /\ s[i] = sep
            /\ \A j \in 1..(i-1) : s[j] # sep
    ELSE Len(s) + 1

\* s.split(sep)[-1]
SplitLast(s, sep) == SubSeq(s, LastIndexOf(s, sep) + 1, Len(s))

\* s.split(sep)[0]
SplitFirst(s, sep) == SubSeq(s, 1, FirstIndexOf(s, sep) - 1)

\* pat in s, for strings
Contains(s, pat) ==
    \E i \in 0..(Len(s) - Len(pat)) :
        \A j \in 1..Len(pat) : s[i + j] = pat[j]

\* a < b as Python compares strings: by code point, a proper prefix first.
StrLess(a, b) ==
    \E k \in 1..(Len(b)) :
        /\ k <= Len(a) + 1
        /\ \A j \in 1..(k-1) : a[j] = b[j]
        /\ \/ k = Len(a) + 1
           \/ (k <= Len(a) /\ Ord(a[k]) < Ord(b[k]))

(***************************************************************************)
(* Registry resolver.                                                      *)
(***************************************************************************)

com == <<"c", "o", "m">>
ai  == <<"a", "i">>
dev == <<"d", "e", "v">>

VERISIGN == "https://rdap.verisign.com/com/v1/domain/{}"
IDENTITY_DIGITAL == "https://rdap.identitydigital.services/rdap/domain/{}"
GOOGLE == "https://rdap.googleapis.com/rdap/v1/domain/{}"
WHOIS_AI == "https://rdap.whois.ai/rdap/domain/{}"
IANA == "https://rdap.iana.org/domain/{}"

\* checkcomorai.py's table
RDAP_ENDPOINTS == (com :> VERISIGN) @@ (ai :> IDENTITY_DIGITAL) @@ (dev :> GOOGLE)

\* aidomains.py's template
RDAP_AI_ENDPOINT == IDENTITY_DIGITAL

\* template.format(domain), and the f-strings that do the same: the
\* template with the domain in place of its {}.
Format(template, domain) == [template |-> template, arg |-> domain]

NoURL == [template |-> "", arg |-> <<>>]

\* tld = domain.split('.')[-1].lower()
TldOf(domain) == Lower(SplitLast(domain, "."))

\* Every script with checkdomains_curl.py's table.
ResolveURL_CurlTable(s, domain) ==
    IF TldOf(domain) = com THEN Format(VERISIGN, domain)
    ELSE IF TldOf(domain) = ai THEN Format(WHOIS_AI, domain)
    ELSE NoURL

\* The URL each script asks about a domain, NoURL when it asks none.
ResolveURL(s, domain) ==
    CASE s = "checkcomorai" ->
            IF TldOf(domain) \in DOMAIN RDAP_ENDPOINTS
            THEN Format(RDAP_ENDPOINTS[TldOf(domain)], domain)
            ELSE Format(IANA, domain)
      [] s = "aidomains" ->
            IF TldOf(domain) # ai THEN NoURL
            ELSE Format(RDAP_AI_ENDPOINT, domain)
      [] s = "checkdomains_curl" ->
            IF TldOf(domain) = com THEN Format(VERISIGN, domain)
            ELSE IF TldOf(domain) = ai THEN Format(WHOIS_AI, domain)
            ELSE NoURL
      [] s = "FindNames" -> Format(VERISIGN, domain)

(***************************************************************************)
(* What the network can answer.                                            *)
(***************************************************************************)

Statuses == {200, 301, 400, 404, 429, 500}

\* A response body: whether it parses as JSON, the type of the parsed
\* value, and its errorCode member when it is an object that has one.
Body(parses, type, ecType, ecNum) ==
    [parses |-> parses, type |-> type, ecType |-> ecType, ecNum |-> ecNum]

Bodies ==
    { Body(FALSE, "none", "none", 0),       \* not JSON (an HTML page)
      Body(TRUE, "array", "none", 0),       \* [404]
      Body(TRUE, "number", "none", 0),      \* 404
      Body(TRUE, "object", "none", 0),      \* {"title": "..."}: a domain object
      Body(TRUE, "object", "num", 400),     \* {"errorCode": 400}
      Body(TRUE, "object", "num", 404),     \* {"errorCode": 404}
      Body(TRUE, "object", "num", 500),     \* {"errorCode": 500}
      Body(TRUE, "object", "str", 404) }    \* {"errorCode": "404"}

\* The reason phrase of an HTTP/1.1 status line is text of the server's
\* choosing: the usual phrase of the code, or a gateway's own words.
\* HTTP/2 has no reason phrase.
Reasons == {"usual", "gateway"}

Outcome(kind, version, reason, status, body) ==
    [kind |-> kind, version |-> version, reason |-> reason, status |-> status,
     body |-> body]

\* timeout: requests.exceptions.Timeout / subprocess.TimeoutExpired;
\* neterror: another RequestException / curl printing nothing;
\* othererror: any other exception out of requests.get / subprocess.run.
Failures ==
    { Outcome(k, "1.1", "usual", 0, Body(FALSE, "none", "none", 0)) :
        k \in {"timeout", "neterror", "othererror"} }

Responses ==
    { Outcome("response", "1.1", rp, st, b) :
        rp \in Reasons, st \in Statuses, b \in Bodies }
    \cup { Outcome("response", "2", "usual", st, b) : st \in Statuses, b \in Bodies }

Outcomes == Failures \cup Responses

NoOutcome == Outcome("none", "1.1", "usual", 0, Body(FALSE, "none", "none", 0))

DigitChar(d) ==
    CASE d = 0 -> "0" [] d = 1 -> "1" [] d = 2 -> "2" [] d = 3 -> "3"
      [] d = 4 -> "4" [] d = 5 -> "5" [] d = 6 -> "6" [] d = 7 -> "7"
      [] d = 8 -> "8" [] d = 9 -> "9"

\* A status code in decimal, as the server writes it.
Digits(n) == <<DigitChar(n \div 100), DigitChar((n \div 10) % 10), DigitChar(n % 10)>>

\* The text after the status code on an HTTP/1.1 status line.
ReasonPhrase(rp, st) ==
    CASE rp = "gateway" -> <<"U", "p", "s", "t", "r", "e", "a", "m", " ", "4", "0", "4">>
      [] st = 200 -> <<"O", "K">>
      [] st = 301 -> <<"M", "o", "v", "e", "d">>
      [] st = 400 -> <<"B", "a", "d", " ", "R", "e", "q", "u", "e", "s", "t">>
      [] st = 404 -> <<"N", "o", "t", " ", "F", "o", "u", "n", "d">>
      [] st = 429 -> <<"T", "o", "o", " ", "M", "a", "n", "y">>
      [] st = 500 -> <<"E", "r", "r", "o", "r">>

\* What curl -s -I prints: the status line and the header lines, each
\* ended by CR LF; nothing at all when the transfer failed.
CurlStdout(o) ==
    IF o.kind # "response" THEN <<>>
    ELSE IF o.version = "2"
    THEN <<"H", "T", "T", "P", "/", "2", " ">> \o Digits(o.status)
         \o <<" ", "\r", "\n", "d", "a", "t", "e", ":", "\r", "\n">>
    ELSE <<"H", "T", "T", "P", "/", "1", ".", "1", " ">> \o Digits(o.status)
         \o <<" ">> \o ReasonPhrase(o.reason, o.status)
         \o <<"\r", "\n", "d", "a", "t", "e", ":", "\r", "\n">>

(***************************************************************************)
(* Availability prober.  A call's result: whether it raised, the value it  *)
(* returned, and the URL it asked (NoURL when it asked none).              *)
(***************************************************************************)

Returned(value, url) == [raised |-> FALSE, value |-> value, url |-> url]

Raised(url) == [raised |-> TRUE, value |-> FALSE, url |-> url]

\* j = r.json(); isinstance(j, dict) and j.get('errorCode') in (400, 404),
\* with ValueError caught: a body that does not parse matches nothing.
JsonNotFound(body) ==
    /\ body.parses
    /\ body.type = "object"
    /\ body.ecType = "num"
    /\ body.ecNum \in {400, 404}

\* The 404 test left out: only the body of a 200 decides.
ClassifyResponse_No404(o) ==
    IF o.status = 200 THEN JsonNotFound(o.body)
    ELSE FALSE

\* The status and body tests of the scripts that use requests.
ClassifyResponse(o) ==
    IF o.status = 404 THEN TRUE
    ELSE IF o.status = 200 THEN JsonNotFound(o.body)
    ELSE FALSE

\* The status-line tests of the scripts that use curl -I.
ClassifyStatusLine(status_line) ==
    IF Contains(status_line, <<"4", "0", "4">>) THEN TRUE
    ELSE IF Contains(status_line, <<"2", "0", "0">>) THEN FALSE
    ELSE FALSE

is_domain_available(s, domain, o) ==
    LET url == ResolveURL(s, domain) IN
    CASE s = "checkcomorai" ->
            IF o.kind \in {"timeout", "neterror"} THEN Returned(FALSE, url)
            ELSE IF o.kind = "othererror" THEN Raised(url)
            ELSE Returned(ClassifyResponse(o), url)
      [] s = "aidomains" ->
            IF url = NoURL THEN Returned(FALSE, NoURL)
            ELSE IF o.kind \in {"timeout", "neterror"} THEN Returned(FALSE, url)
            ELSE IF o.kind = "othererror" THEN Raised(url)
            ELSE Returned(ClassifyResponse(o), url)
      [] s = "checkdomains_curl" ->
            IF url = NoURL THEN Returned(FALSE, NoURL)
            ELSE IF o.kind \in {"timeout", "othererror"} THEN Returned(FALSE, url)
            ELSE Returned(ClassifyStatusLine(SplitFirst(CurlStdout(o), "\n")), url)
      [] s = "FindNames" ->
            IF o.kind \in {"timeout", "othererror"} THEN Returned(FALSE, url)
            ELSE Returned(ClassifyStatusLine(SplitFirst(CurlStdout(o), "\n")), url)

\* The domain a task probes: FindNames.py is given a word and adds .com.
DomainOf(s, arg) == IF s = "FindNames" THEN arg \o <<".">> \o com ELSE arg

\* The wrapper without its try/except: the exception goes to the caller.
check_domain_NoCatch(s, arg, o) ==
    LET domain == DomainOf(s, arg)
        r == is_domain_available(s, domain, o)
    IN  [raised |-> r.raised,
         domain |-> domain,
         available |-> IF r.raised THEN FALSE ELSE r.value]

\* check_domain / check_domain_wrapper: (domain, available), with any
\* exception of is_domain_available turned into (domain, False).
check_domain(s, arg, o) ==
    LET domain == DomainOf(s, arg)
        r == is_domain_available(s, domain, o)
    IN  [raised |-> FALSE,
         domain |-> domain,
         available |-> IF r.raised THEN FALSE ELSE r.value]

(***************************************************************************)
(* ProbeSpec: one call of check_domain at a time, on every script, input   *)
(* and network outcome.                                                    *)
(***************************************************************************)

Words == { <<"a">>, <<"b", "o">> }

Domains ==
    { <<"a", ".", "c", "o", "m">>,
      <<"a", ".", "a", "i">>,
      <<"a", ".", "d", "e", "v">>,
      <<"a", ".", "z", "z">>,
      <<"A", ".", "C", "O", "M">>,
      <<"b", ".", "A", "i">>,
      <<"a", ".", "c", "o", "m", ".", "a", "i">>,
      <<"a", "i">> }

ArgsOf(s) == IF s = "FindNames" THEN Words ELSE Domains

NoProbe ==
    [state |-> "idle", arg |-> <<>>, outcome |-> NoOutcome,
     inner |-> Returned(FALSE, NoURL),
     ret |-> [raised |-> FALSE, domain |-> <<>>, available |-> FALSE]]

\* Nothing printed or written yet.
NoOutput ==
    [written |-> FALSE, checked |-> 0, found |-> 0, printed |-> <<>>, lines |-> <<>>]

\* The pool at rest.
PoolIdle ==
    /\ max_workers = 1
    /\ domains_to_check = <<>>
    /\ future = <<>>
    /\ hung = {}
    /\ yielded = {}
    /\ cur = 0
    /\ lock = "free"
    /\ available_domains = <<>>
    /\ output = NoOutput
    /\ pc = "idle"

ProbeInit ==
    /\ script \in Scripts
    /\ probe = NoProbe
    /\ PoolIdle

\* A caller invokes check_domain(arg).
ProbeCall ==
    /\ probe.state \in {"idle", "returned"}
    /\ \E arg \in ArgsOf(script) :
          probe' = [NoProbe EXCEPT !.state = "called", !.arg = arg]
    /\ UNCHANGED <<script, poolVars>>

\* The network answers (or fails) and check_domain returns or raises.
ProbeReturn ==
    /\ probe.state = "called"
    /\ \E o \in Outcomes :
          probe' = [probe EXCEPT
                       !.state = "returned",
                       !.outcome = o,
                       !.inner = is_domain_available(script, DomainOf(script, probe.arg), o),
                       !.ret = check_domain(script, probe.arg, o)]
    /\ UNCHANGED <<script, poolVars>>

ProbeNext == ProbeCall \/ ProbeReturn

ProbeSpec == ProbeInit /\ [][ProbeNext]_vars

(***************************************************************************)
(* Claims about the prober and the resolver (ProbeSpec).                   *)
(***************************************************************************)

\* The call under way has returned, having sent a request that a registry
\* answered with status st.
Answered(st) ==
    /\ probe.state = "returned"
    /\ probe.inner.url # NoURL
    /\ probe.outcome.kind = "response"
    /\ probe.outcome.status = st

\* The body is a JSON object whose errorCode is 400 or 404.
ErrorObject(body) ==
    /\ body.parses
    /\ body.type = "object"
    /\ body.ecType = "num"
    /\ (body.ecNum = 400 \/ body.ecNum = 404)

probed_domain == DomainOf(script, probe.arg)

\* C1: in every script, a probe answered with status 200 and a JSON object
\* body whose errorCode is 400 or 404 returns Available.
C1_Status200BodyInspected ==
    (Answered(200) /\ ErrorObject(probe.outcome.body)) => probe.ret.available

\* C2: in every script, for every suffix and body, a probe whose registry
\* response has status 404 returns Available.
C2_Status404Available ==
    Answered(404) => (~probe.ret.raised /\ probe.ret.available)

\* A 404 for a candidate whose suffix no table lists, with a JSON body
\* that says nothing of the kind.
C2_Witness ==
    /\ Answered(404)
    /\ TldOf(probed_domain) \notin DOMAIN RDAP_ENDPOINTS
    /\ probe.outcome.body = Body(TRUE, "object", "num", 500)
    /\ probe.ret.available

\* C3: a probe returns Available only when a registry answered 404, or
\* answered 200 with a JSON object whose errorCode is 400 or 404; every
\* other response or failure yields Unavailable.
C3_AvailableOnlyWhenNotFound ==
    (probe.state = "returned" /\ probe.ret.available) =>
        \/ Answered(404)
        \/ (Answered(200) /\ ErrorObject(probe.outcome.body))

\* C4: whatever the network does, check_domain returns a verdict and
\* raises nothing; a timeout or network error yields Unavailable.
C4_NeverRaises ==
    probe.state = "returned" =>
        /\ ~probe.ret.raised
        /\ probe.ret.available \in BOOLEAN
        /\ probe.ret.domain = probed_domain
        /\ (probe.outcome.kind \in {"timeout", "neterror", "othererror"}
                => ~probe.ret.available)

\* is_domain_available raised and the wrapper answered Unavailable.
C4_Witness ==
    /\ probe.state = "returned"
    /\ probe.outcome.kind = "othererror"
    /\ probe.inner.raised
    /\ ~probe.ret.raised
    /\ ~probe.ret.available

\* The URL the registry table of the specification gives a domain.
TableURL(domain) ==
    IF TldOf(domain) = com THEN Format(VERISIGN, domain)
    ELSE IF TldOf(domain) = ai THEN Format(IDENTITY_DIGITAL, domain)
    ELSE IF TldOf(domain) = dev THEN Format(GOOGLE, domain)
    ELSE Format(IANA, domain)

C8_UnknownSuffixBootstrap ==
    (probe.state = "returned" /\ TldOf(probed_domain) \notin {com, ai, dev}) =>
        probe.inner.url = Format(IANA, probed_domain)

(***************************************************************************)
(* The pool of a whole run: the ThreadPoolExecutor block, the as_completed *)
(* loop, the sort and the summary.                                         *)
(***************************************************************************)

MaxCandidates == 3

MaxWorkers == 2

\* The candidates a run may be given.
PoolWords == { <<"a">>, <<"b", "o">> }

PoolDomains == { <<"a", ".", "a", "i">>, <<"B", ".", "a", "i">> }

PoolArgsOf(s) == IF s = "FindNames" THEN PoolWords ELSE PoolDomains

\* The scripts that call available_domains.sort() after the pool.
SortingScripts == {"aidomains", "checkcomorai"}

Tasks == 1..Len(future)

Running == { i \in Tasks : future[i].state = "RUNNING" }

NoResult == [raised |-> FALSE, domain |-> <<>>, available |-> FALSE]

RECURSIVE Insert(_, _)
Insert(x, s) ==
    IF s = <<>> THEN <<x>>
    ELSE IF StrLess(x, Head(s)) THEN <<x>> \o s
    ELSE <<Head(s)>> \o Insert(x, Tail(s))

RECURSIVE SortList(_)
\* list.sort() on a list of strings
SortList(s) == IF s = <<>> THEN <<>> ELSE Insert(Head(s), SortList(Tail(s)))

Init ==
    /\ script \in Scripts
    /\ probe = NoProbe
    /\ max_workers \in 1..MaxWorkers
    /\ \E n \in 1..MaxCandidates : domains_to_check \in [1..n -> PoolArgsOf(script)]
    /\ future = <<>>
    /\ hung = {}
    /\ yielded = {}
    /\ cur = 0
    /\ lock = "free"
    /\ available_domains = <<>>
    /\ output = NoOutput
    /\ pc = "submit"

\* Every task bound to the variable of the comprehension, read after the
\* comprehension has ended: each gets the last candidate.
SubmittedArg_Last(list, n) == list[Len(list)]

\* The argument of the task submitted when n tasks have been: the next
\* element of the list the comprehension walks.
SubmittedArg(list, n) == list[n + 1]

\* executor.submit(check_domain, domain) for the next candidate of the
\* dict comprehension; after the last one the loop over as_completed starts.
Submit ==
    /\ pc = "submit"
    /\ Len(future) < Len(domains_to_check)
    /\ future' = Append(future, [state |-> "PENDING",
                                 arg |-> SubmittedArg(domains_to_check, Len(future)),
                                 result |-> NoResult])
    /\ pc' = IF Len(future) + 1 = Len(domains_to_check) THEN "loop" ELSE "submit"
    /\ UNCHANGED <<script, probe, output, max_workers, domains_to_check, hung, yielded,
                   cur, lock, available_domains>>

\* The bound off by one: a worker more than max_workers.
WorkerFree_OneMore == Cardinality(Running) <= max_workers

\* A free worker thread may take a work item.
WorkerFree == Cardinality(Running) < max_workers

\* A worker thread takes the oldest queued work item and calls the task.
Start(i) ==
    /\ future[i].state = "PENDING"
    /\ \A j \in 1..(i-1) : future[j].state # "PENDING"
    /\ WorkerFree
    /\ future' = [future EXCEPT ![i].state = "RUNNING"]
    /\ UNCHANGED <<script, probe, output, max_workers, domains_to_check, hung, yielded,
                   cur, lock, available_domains, pc>>

\* The network call of a running task stops returning: requests' timeout
\* bounds each wait on the socket, not the call.
Hang(i) ==
    /\ script \in RequestsScripts
    /\ future[i].state = "RUNNING"
    /\ i \notin hung
    /\ hung' = hung \cup {i}
    /\ UNCHANGED <<script, probe, output, max_workers, domains_to_check, future, yielded,
                   cur, lock, available_domains, pc>>

\* What a task can come back with, over everything the network can do.
ResultTable ==
    UNION { { <<s, arg, check_domain(s, arg, o)>> :
                arg \in PoolArgsOf(s), o \in Outcomes } : s \in Scripts }

TaskResults(s, arg) == { t[3] : t \in { u \in ResultTable : u[1] = s /\ u[2] = arg } }

\* The task returns (or raises) and its future is set.
Finish(i) ==
    /\ future[i].state = "RUNNING"
    /\ i \notin hung
    /\ \E r \in TaskResults(script, future[i].arg) :
          future' = [future EXCEPT ![i].state = "FINISHED", ![i].result = r]
    /\ UNCHANGED <<script, probe, output, max_workers, domains_to_check, hung, yielded,
                   cur, lock, available_domains, pc>>

\* future.result(timeout=...): "value", "raised", or "timeout" when the
\* future is not set within the timeout.
ResultOf(f) ==
    IF f.state # "FINISHED" THEN "timeout"
    ELSE IF f.result.raised THEN "raised"
    ELSE "value"

\* Whether the loop body goes on to take the lock with this result:
\* aidomains.py takes it only for an available domain.
TakesLock(s, f) ==
    /\ ResultOf(f) = "value"
    /\ (s = "aidomains" => f.result.available)

\* The loop body appending as soon as it has the result, without the lock.
Collect_AppendUnlocked(i) ==
    /\ pc = "loop"
    /\ future[i].state = "FINISHED"
    /\ i \notin yielded
    /\ yielded' = yielded \cup {i}
    /\ available_domains' =
          IF ResultOf(future[i]) = "value" /\ future[i].result.available
          THEN Append(available_domains, future[i].result.domain)
          ELSE available_domains
    /\ UNCHANGED <<script, probe, output, max_workers, domains_to_check, future, hung,
                   lock, cur, pc>>

\* as_completed hands the loop a finished future, and the loop body calls
\* future.result on it; the except branches log and go on.
Collect(i) ==
    /\ pc = "loop"
    /\ future[i].state = "FINISHED"
    /\ i \notin yielded
    /\ yielded' = yielded \cup {i}
    /\ IF TakesLock(script, future[i])
       THEN cur' = i /\ pc' = "acquire"
       ELSE cur' = 0 /\ pc' = "loop"
    /\ UNCHANGED <<script, probe, output, max_workers, domains_to_check, future, hung,
                   lock, available_domains>>

\* with lock:
Acquire ==
    /\ pc = "acquire"
    /\ lock = "free"
    /\ lock' = "main"
    /\ pc' = "locked"
    /\ UNCHANGED <<script, probe, output, max_workers, domains_to_check, future, hung,
                   yielded, cur, available_domains>>

\* The append written twice.
Folded_Twice(list, r) ==
    IF r.available THEN Append(Append(list, r.domain), r.domain) ELSE list

\* The append without its test of the verdict.
Folded_NoCheck(list, r) == Append(list, r.domain)

\* What the body of the with statement leaves in the list.
Folded(list, r) == IF r.available THEN Append(list, r.domain) ELSE list

\* if available: available_domains.append(domain), and the lock is released.
AppendRelease ==
    /\ pc = "locked"
    /\ available_domains' = Folded(available_domains, future[cur].result)
    /\ lock' = "free"
    /\ cur' = 0
    /\ pc' = "loop"
    /\ UNCHANGED <<script, probe, output, max_workers, domains_to_check, future, hung,
                   yielded>>

\* The loop left after the first result (a break in its body).
LoopExhausted_AfterFirst == yielded # {}

\* The for loop ends when as_completed has handed out every future.
LoopExhausted == yielded = Tasks

\* as_completed is exhausted once every future has been handed out; the with
\* block then ends with executor.shutdown(wait=True).
ExitPool ==
    /\ pc = "loop"
    /\ LoopExhausted
    /\ \A i \in Tasks : future[i].state = "FINISHED"
    /\ pc' = "sort"
    /\ UNCHANGED <<script, probe, output, max_workers, domains_to_check, future, hung,
                   yielded, cur, lock, available_domains>>

\* The list as the summary gets it.
Finalized(s, list) == IF s \in SortingScripts THEN SortList(list) ELSE list

\* available_domains.sort(), in the scripts that have the statement.
Finalize ==
    /\ pc = "sort"
    /\ available_domains' = Finalized(script, available_domains)
    /\ pc' = "summary"
    /\ UNCHANGED <<script, probe, output, max_workers, domains_to_check, future, hung,
                   yielded, cur, lock>>

\* The line written to the file in place of the domains when there are none.
NoneLine == <<"N", "o", "n", "e">>

\* The sentence printed in place of the domains when there are none
\* ("None found." in aidomains.py, a longer one in two other scripts).
NoneMessage == <<"N", "o", "n", "e", " ", "f", "o", "u", "n", "d", ".">>

\* Each element of list twice in a row.
Twice(list) == [k \in 1..(2 * Len(list)) |-> list[(k + 1) \div 2]]

\* The lines print() gives the summary after its header: one per domain;
\* FindNames.py prints nothing for an empty list.
PrintedLines(s, list) ==
    IF list = <<>> /\ s # "FindNames" THEN <<NoneMessage>> ELSE list

\* The lines f.write() gives the file after its header: FindNames.py has
\* two f.write(domain) in its loop and no else branch.
FileLines(s, list) ==
    IF s = "FindNames" THEN Twice(list)
    ELSE IF list = <<>> THEN <<NoneLine>>
    ELSE list

\* The summary is printed and the file written, both with the counts
\* len(domains_to_check) and len(available_domains).
Report ==
    /\ pc = "summary"
    /\ output' = [written |-> TRUE,
                  checked |-> Len(domains_to_check),
                  found |-> Len(available_domains),
                  printed |-> PrintedLines(script, available_domains),
                  lines |-> FileLines(script, available_domains)]
    /\ pc' = "done"
    /\ UNCHANGED <<script, probe, max_workers, domains_to_check, future, hung,
                   yielded, cur, lock, available_domains>>

Next ==
    \/ Submit
    \/ \E i \in Tasks : Start(i)
    \/ \E i \in Tasks : Hang(i)
    \/ \E i \in Tasks : Finish(i)
    \/ \E i \in Tasks : Collect(i)
    \/ Acquire
    \/ AppendRelease
    \/ ExitPool
    \/ Finalize
    \/ Report

Spec == Init /\ [][Next]_vars

\* The threads are scheduled and a call that has not hung returns: every
\* step but Hang is taken if it stays possible.
Progress ==
    \/ Submit
    \/ \E i \in Tasks : Start(i)
    \/ \E i \in Tasks : Finish(i)
    \/ \E i \in Tasks : Collect(i)
    \/ Acquire
    \/ AppendRelease
    \/ ExitPool
    \/ Finalize
    \/ Report

FairSpec == Spec /\ WF_vars(Progress)

(***************************************************************************)
(* Claims about the pool (Spec, FairSpec).                                 *)
(***************************************************************************)

\* The number of positions of list that hold d.
Count(d, list) == Cardinality({ k \in 1..Len(list) : list[k] = d })

IsSorted(list) ==
    \A k \in 1..(Len(list) - 1) : ~StrLess(list[k + 1], list[k])

AllSubmitted == Len(future) = Len(domains_to_check)

AllAvailable ==
    /\ AllSubmitted
    /\ \A i \in Tasks : future[i].state = "FINISHED" /\ future[i].result.available

\* The futures whose result the loop has folded into the list.
FoldedTasks == { i \in yielded : i # cur }

\* C5: when every probe of a run returned Available, the final list has
\* one entry per candidate and is sorted, whatever the completion order.
C5_AllAvailableSorted ==
    (pc = "done" /\ AllAvailable) =>
        /\ Len(available_domains) = Len(domains_to_check)
        /\ IsSorted(available_domains)

\* One task of several has hung and the loop has dealt with every other.
OneHungOthersDone ==
    /\ AllSubmitted
    /\ Len(future) >= 2
    /\ Cardinality(hung) = 1
    /\ \A i \in Tasks \ hung : i \in yielded /\ i # cur

\* C6: when one task hangs and every other completes, the run still
\* reaches its summary and end, without the hung candidate's result.
C6_HungRunTerminates ==
    OneHungOthersDone ~> (pc = "done" /\ hung \cap yielded = {})

\* The domains the tasks of the run probe.
Dispatched == { DomainOf(script, domains_to_check[i]) : i \in Tasks }

\* C9: in every state, each domain is in the list once for every task that
\* returned it Available and that the loop has folded, and for no other;
\* after the loop that is once for every Available task dispatched.
C9_NoLossNoDuplicate ==
    /\ \A d \in Dispatched :
          Count(d, available_domains) =
              Cardinality({ i \in FoldedTasks :
                              future[i].result.available /\ future[i].result.domain = d })
    /\ \A k \in 1..Len(available_domains) : available_domains[k] \in Dispatched
    /\ pc \in {"sort", "summary", "done"} => FoldedTasks = Tasks

\* A run has ended with a domain dispatched twice and listed twice, and
\* another candidate left out.
C9_Witness ==
    /\ pc = "done"
    /\ Len(domains_to_check) = 3
    /\ Len(available_domains) = 2
    /\ available_domains[1] = available_domains[2]

\* C10: at most max_workers tasks are executing; the others wait queued.
C10_AtMostWRunning == Cardinality(Running) <= max_workers

\* Every worker is busy, one of them on a call that hangs, and a task waits.
C10_Witness ==
    /\ max_workers = 2
    /\ Cardinality(Running) = 2
    /\ hung # {}
    /\ \E i \in Tasks : future[i].state = "PENDING"

\* C11: one task per element of the candidate list: never more tasks than
\* candidates, after submission as many, the task at each position probes
\* the candidate at that position, and a finished task reports that
\* candidate's domain.
C11_OneTaskPerCandidate ==
    /\ Len(future) <= Len(domains_to_check)
    /\ pc # "submit" => Len(future) = Len(domains_to_check)
    /\ \A i \in Tasks : future[i].arg = domains_to_check[i]
    /\ \A i \in Tasks :
          future[i].state = "FINISHED" =>
              future[i].result.domain = DomainOf(script, domains_to_check[i])

\* Three tasks for three candidates, two of them the same domain, have all
\* finished.
C11_Witness ==
    /\ Len(domains_to_check) = 3
    /\ Len(future) = 3
    /\ domains_to_check[1] = domains_to_check[3]
    /\ domains_to_check[1] # domains_to_check[2]
    /\ \A i \in Tasks : future[i].state = "FINISHED"

\* The lines of a listing that hold a domain.
DomainLines(lines) == SelectSeq(lines, LAMBDA l : l # NoneLine /\ l # NoneMessage)

\* C16: the file lists exactly the entries of the final list, each on one
\* line and once; the count reported as found is the number of domain
\* lines, and the count reported as checked the number of candidates.
C16_OutputListsResultSet ==
    pc = "done" =>
        /\ output.written
        /\ DomainLines(output.lines) = available_domains
        /\ output.found = Len(DomainLines(output.lines))
        /\ output.checked = Len(domains_to_check)

\* Every task has been submitted, has finished and has been handed to the loop.
AllTasksDone ==
    /\ AllSubmitted
    /\ yielded = Tasks
    /\ \A i \in Tasks : future[i].state = "FINISHED"

\* C12: whatever the probes come back with, failures included, the run is
\* never stuck or ended short of its summary while no call hangs: some step
\* of it can be taken until it is done; and at its end every task has been
\* processed, each failure was turned into a verdict and raised nothing,
\* and the summary reports the counts of the run.
C12_FailuresNeverAbort ==
    /\ (hung = {} /\ pc # "done") => ENABLED Progress
    /\ pc = "done" =>
          /\ AllTasksDone
          /\ \A i \in Tasks : ~future[i].result.raised
          /\ output.written
          /\ output.checked = Len(domains_to_check)
          /\ output.found = Len(available_domains)

\* A run of three candidates in which no probe came back Available has
\* ended with a summary of none found.
C12_Witness ==
    /\ pc = "done"
    /\ Len(domains_to_check) = 3
    /\ \A i \in Tasks : ~future[i].result.available
    /\ available_domains = <<>>
    /\ output.written
    /\ output.found = 0
    /\ output.checked = 3

\* C13: every entry of the list is the domain of a task that finished with
\* the verdict Available and that the loop has folded, and there are no
\* more entries than such tasks; a task handed to the loop has finished
\* and stays so (none is run again, none is added), and a hung task is
\* never handed out.
C13_OnlyAvailableEntries ==
    /\ \A k \in 1..Len(available_domains) :
          \E i \in FoldedTasks :
              /\ future[i].state = "FINISHED"
              /\ ~future[i].result.raised
              /\ future[i].result.available
              /\ future[i].result.domain = available_domains[k]
    /\ Len(available_domains) =
          Cardinality({ i \in FoldedTasks : future[i].result.available })
    /\ \A i \in yielded : future[i].state = "FINISHED"
    /\ hung \cap yielded = {}
    /\ Len(future) <= Len(domains_to_check)

\* A run has ended with one of its three candidates listed and the others,
\* judged Unavailable, left out.
C13_Witness ==
    /\ pc = "done"
    /\ Len(domains_to_check) = 3
    /\ Len(available_domains) = 1
    /\ \E i \in Tasks : ~future[i].result.available
                          /\ future[i].result.domain # available_domains[1]

\* C14: the sort and the summary start only when every task has been
\* submitted, has finished and has been handed to the loop; from then on no
\* entry is added to the list or removed from it, and once sorted the list
\* does not change.
C14_FinalizeAfterAllTasks ==
    [][ /\ pc' \in {"sort", "summary", "done"} =>
              /\ Len(future') = Len(domains_to_check')
              /\ yielded' = 1..Len(future')
              /\ \A i \in 1..Len(future') : future'[i].state = "FINISHED"
        /\ output'.written => pc' = "done"
        /\ pc \in {"sort", "summary", "done"} =>
              /\ future' = future
              /\ \A d \in Dispatched :
                    Count(d, available_domains') = Count(d, available_domains)
              /\ Len(available_domains') = Len(available_domains)
        /\ pc \in {"summary", "done"} => available_domains' = available_domains
      ]_vars

\* A run of three tasks has been sorted into an order other than the
\* order of completion and reported.
C14_Witness ==
    /\ pc = "done"
    /\ output.written
    /\ Len(future) = 3
    /\ Len(available_domains) = 3
    /\ \E i \in Tasks : future[i].result.domain # available_domains[i]

\* C15: a step of a worker (a task starting, hanging or returning) leaves
\* the list and the lock as they are, and the list grows only in a step
\* taken by the main thread while it holds the lock, by one entry.
C15_AppendUnderLock ==
    [][ /\ future' # future \/ hung' # hung =>
              /\ available_domains' = available_domains
              /\ lock' = lock
        /\ Len(available_domains') # Len(available_domains) =>
              /\ lock = "main"
              /\ pc = "locked"
              /\ Len(available_domains') = Len(available_domains) + 1
      ]_vars

\* The main thread holds the lock, about to append a second entry, while a
\* worker is still running a task.
C15_Witness ==
    /\ lock = "main"
    /\ pc = "locked"
    /\ future[cur].result.available
    /\ Len(available_domains) = 1
    /\ Running # {}

====
